---- MODULE Spec2Model ----
(***************************************************************************)
(* The payload drop simulator of backend/simulator.py, with the position   *)
(* update of backend/physics.py, the wind model of backend/wind_model.py   *)
(* and the HTTP layer of backend/main.py that loads the wind model and     *)
(* validates a drop request before it calls the simulator.                 *)
(*                                                                         *)
(* One activation of simulate_payload_drop is a record of its arguments    *)
(* and locals, named as in the source, plus a program counter:             *)
(*   "uncalled" the arguments are those of a request not yet let through   *)
(*   "for"     the head of `for _ in range(monte_carlo_runs)` (line 14)    *)
(*   "while"   the head of `while z > 0` (line 19)                         *)
(*   "return"  the result assembly (lines 48-62)                           *)
(*   "returned", "raised"  the call has ended                              *)
(*                                                                         *)
(* Numbers.  Python floats are IEEE-754 binary64.  The model holds every   *)
(* float as an integer count of a fixed unit:                              *)
(*   x, y, z, winds,        eighths of a metre (per second): binary        *)
(*   descent_rate           fractions, as binary64 holds them exactly      *)
(*   altitudes in km        1/8000 km, so z / 1000 and                     *)
(*                          drop_altitude_km * 1000 keep the numerator     *)
(*   u_std, v_std, floors   tenths of a metre per second                   *)
(*   rounded results        hundredths (the two decimals of round(., 2))   *)
(* Every sum and difference is rounded to Precision significant bits, to   *)
(* nearest, ties to even, as binary64 does with its 53 bits: Precision is  *)
(* the scaled-down width.  Inputs at or above 2^Precision units stand for  *)
(* the binary64 inputs whose sums the significand cannot hold exactly      *)
(* (a descent_rate of 0.1, say); below that every sum is exact, as the     *)
(* sums of small whole numbers are in binary64.  NaN is the one non-finite *)
(* value kept: it spreads through every operation it enters.               *)
(***************************************************************************)
EXTENDS Integers, Sequences, FiniteSets

VARIABLES frame, twin, main, np_random

vars == <<frame, twin, main, np_random>>

--------------------------------------------------------------------------
(* Bounds of the model.                                                    *)

\* Significand width of the model's floats (binary64: 53).
Precision == 16

\* Loop iterations explored per call, over all its runs.
MaxSteps == 5

--------------------------------------------------------------------------
(* Program constants.                                                      *)

\* simulator.py:11   dt = 1.0
dt == 1

\* simulator.py:15, :20   the factor between km and m
MetresPerKm == 1000

\* simulator.py:26   max(u_std, 0.5), in tenths
UStdFloor == 5

\* simulator.py:27   max(v_std, 0.3), in tenths
VStdFloor == 3

\* simulator.py:38-40, :44-45, :56-59   round(., 2)
Places == 2

\* main.py:56   20 <= drop_altitude_km <= 50, in km
MinDropKm == 20

MaxDropKm == 50

\* main.py:34   20 <= altitude_km <= 80, in km
MinProfileKm == 20

MaxProfileKm == 80

\* main.py:60   10 <= monte_carlo_runs <= 200
MinRuns == 10

MaxRuns == 200

\* Units of x, y, z, the winds and the descent rate per metre (per second).
DriftGrid == 2 ^ 3

\* Units of an altitude per km.
AltGrid == MetresPerKm * DriftGrid

\* The significand width of the binary64 quotient z / 1000 (line 20).
Binary64Bits == 53

--------------------------------------------------------------------------
(* Arithmetic.                                                             *)

\* float('nan'), a value no finite count takes.
NaN == -(2 ^ 30)

IsNaN(a) == a = NaN

Abs(n) == IF n < 0 THEN -n ELSE n

Sign(n) == IF n < 0 THEN -1 ELSE 1

\* Max2 that gives the smaller of the two.
Max2Smaller(a, b) == IF IsNaN(a) THEN a ELSE IF a <= b THEN a ELSE b

\* Python's max(a, b): a unless b > a, and no comparison with nan is true.
Max2(a, b) == IF IsNaN(a) THEN a ELSE IF a >= b THEN a ELSE b

RECURSIVE Ulp(_)
\* The spacing of the floats around magnitude a.
Ulp(a) == IF a < 2 ^ Precision THEN 1 ELSE 2 * Ulp(a \div 2)

\* The float nearest to n, ties to the even significand.
FloatRound(n) ==
    LET a == Abs(n)
        g == Ulp(a)
        q == a \div g
        r == a % g
        up == 2 * r > g \/ (2 * r = g /\ q % 2 = 1)
    IN  IF IsNaN(n) THEN NaN ELSE Sign(n) * (IF up THEN q + 1 ELSE q) * g

FloatAdd(a, b) == IF IsNaN(a) \/ IsNaN(b) THEN NaN ELSE FloatRound(a + b)

FloatSub(a, b) == IF IsNaN(a) \/ IsNaN(b) THEN NaN ELSE FloatRound(a - b)

FloatMul(a, b) == IF IsNaN(a) \/ IsNaN(b) THEN NaN ELSE FloatRound(a * b)

\* num/den rounded to the nearest integer; an exact half goes up iff tieUp.
RoundRatio(num, den, tieUp) ==
    LET q == num \div den
        r == num % den
    IN  IF 2 * r > den \/ (2 * r = den /\ tieUp) THEN q + 1 ELSE q

\* Python's round(v, 2) of the binary fraction v = n/DriftGrid, in
\* hundredths: correctly rounded, an exact half to the even neighbour;
\* round(nan, 2) is nan.
Round2(n) ==
    LET num == n * 10 ^ Places
        q == num \div DriftGrid
    IN  IF IsNaN(n) THEN NaN ELSE RoundRatio(num, DriftGrid, q % 2 = 1)

RECURSIVE Pow2Mod(_, _)
\* 2^p modulo m.
Pow2Mod(p, m) == IF p = 0 THEN 1 % m ELSE (2 * Pow2Mod(p - 1, m)) % m

RECURSIVE Binade(_, _)
\* The j with d * 2^j <= n < d * 2^(j + 1), for n > 0: the binary exponent
\* of n / d.
Binade(n, d) ==
    IF n < d THEN Binade(2 * n, d) - 1
    ELSE IF n < 2 * d THEN 0
    ELSE Binade(n \div 2, d) + 1

\* z/1000 is no binary fraction: the binary64 quotient of line 20 is the
\* 53-bit number nearest to alt/AltGrid and lies above it (1), below it (-1)
\* or on it (0).  With e the exponent that scales the quotient to a 53-bit
\* integer, r is the remainder that integer's division leaves.
QuotientSide(alt) ==
    LET e == Binary64Bits - 1 - Binade(alt, AltGrid)
        r == ((alt % AltGrid) * Pow2Mod(e, AltGrid)) % AltGrid
    IN  IF alt <= 0 \/ r = 0 THEN 0
        ELSE IF 2 * r > AltGrid THEN 1 ELSE -1

\* round(current_alt_km, 2) in hundredths of a km, current_alt_km =
\* alt/AltGrid.  Where alt/AltGrid sits on a decimal midpoint round()
\* follows the quotient: round(0.005, 2) = 0.01, round(0.045, 2) = 0.04.
RoundAlt(alt) ==
    LET num == alt * 10 ^ Places
        q == num \div AltGrid
        side == QuotientSide(alt)
    IN  RoundRatio(num, AltGrid, IF side = 0 THEN q % 2 = 1 ELSE side > 0)

RECURSIVE SqrtBetween(_, _, _)
\* The r with lo <= r < hi and r * r <= n < (r + 1) * (r + 1).
SqrtBetween(n, lo, hi) ==
    IF hi - lo <= 1 THEN lo
    ELSE LET mid == (lo + hi) \div 2
         IN  IF mid * mid <= n THEN SqrtBetween(n, mid, hi)
             ELSE SqrtBetween(n, lo, mid)

\* floor(sqrt(n)), n below 2^31.
ISqrt(n) == SqrtBetween(n, 0, IF n < 46340 THEN n + 1 ELSE 46341)

RECURSIVE SeqSum(_)
SeqSum(s) == IF s = <<>> THEN 0 ELSE Head(s) + SeqSum(Tail(s))

HasNaN(s) == \E i \in 1..Len(s) : IsNaN(s[i])

--------------------------------------------------------------------------
(* backend/wind_model.py.  The fit is scikit-learn's: the model keeps what *)
(* it comes to, one of a few fitted profiles, or the exception that        *)
(* pandas or scikit-learn raises on the way.  predict(altitude_km)         *)
(* answers with u_mean, v_mean, u_std, v_std, a pure function of the       *)
(* altitude.                                                               *)

\* What the file at csv_path may hold: no file; a file of no bytes; a table
\* without the altitude_km column; a table with a nan cell; a table whose
\* rows all have the same altitude_km; two tables of ordinary soundings.
DataFiles ==
    {"absent", "empty", "malformed", "nonfinite", "same_altitude",
     "calm_soundings", "shear_soundings"}

\* The profiles a fit of DataFiles comes to.
WindModels == {"calm", "shear", "flat"}

\* WindModel.__init__ (lines 7-39): the exception it ends with, or the
\* profile fitted.  Line 13 reads the file (FileNotFoundError,
\* EmptyDataError), line 14 picks the column (KeyError), line 38 fits
\* (ValueError on a nan cell).  The source tests nothing itself: rows of one
\* altitude are fitted like any others.
WindModel_init(csv_path) ==
    CASE csv_path = "absent" -> [raised |-> "FileNotFoundError", model |-> "unset"]
      [] csv_path = "empty" -> [raised |-> "EmptyDataError", model |-> "unset"]
      [] csv_path = "malformed" -> [raised |-> "KeyError", model |-> "unset"]
      [] csv_path = "nonfinite" -> [raised |-> "ValueError", model |-> "unset"]
      [] csv_path = "same_altitude" -> [raised |-> "none", model |-> "flat"]
      [] csv_path = "calm_soundings" -> [raised |-> "none", model |-> "calm"]
      [] OTHER -> [raised |-> "none", model |-> "shear"]

\* WindModel.predict.  altitude_km in 1/8000 km.  "steady" and "diverging"
\* are no fits but stand-ins a caller may hand to the simulator: a constant
\* 2 m/s eastward wind, and a model whose u_mean is nan below 20 m.
predict(wind_model, altitude_km) ==
    CASE wind_model = "calm" ->
            [u_mean |-> 0, v_mean |-> 0, u_std |-> 0, v_std |-> 0]
      [] wind_model = "flat" ->
            [u_mean |-> DriftGrid \div 2, v_mean |-> 0, u_std |-> 10, v_std |-> 10]
      [] wind_model = "steady" ->
            [u_mean |-> 2 * DriftGrid, v_mean |-> 0, u_std |-> 0, v_std |-> 0]
      [] wind_model = "diverging" ->
            [u_mean |-> IF altitude_km >= 20 * DriftGrid THEN DriftGrid ELSE NaN,
             v_mean |-> 0, u_std |-> 10, v_std |-> 2]
      [] OTHER ->
            [u_mean |-> IF altitude_km >= 20 * DriftGrid THEN DriftGrid
                        ELSE DriftGrid \div 2,
             v_mean |-> -(DriftGrid \div 2),
             u_std |-> 10,
             v_std |-> 2]

--------------------------------------------------------------------------
(* numpy.                                                                  *)

\* The deviations from the mean a draw of np.random.normal may take, in
\* eighths of a metre per second.
Noise == {0, 1}

\* np.random.normal(loc, scale), the generator's draw lying e from loc.
\* A zero scale leaves no spread; a nan argument gives nan.
normal(loc, scale, e) ==
    IF IsNaN(loc) \/ IsNaN(scale) THEN NaN
    ELSE IF scale > 0 THEN loc + e ELSE loc

\* round(np.mean(xs), 2) of values in hundredths, in hundredths.
\* np.mean is sum / N.
mean2(xs, tieUp) ==
    IF HasNaN(xs) THEN NaN ELSE RoundRatio(SeqSum(xs), Len(xs), tieUp)

\* N * (xs[i] - mean): the deviations np.std squares, scaled by N.
Deviations(xs) == [i \in 1..Len(xs) |-> Len(xs) * xs[i] - SeqSum(xs)]

\* std2 with the sample divisor N - 1 (ddof = 1).
std2_sample(xs, tieUp) ==
    LET n == Len(xs)
        dev == Deviations(xs)
        ss == SeqSum([i \in 1..n |-> dev[i] * dev[i]])
        d == n * n * (n - 1)
        twice == IF n = 1 THEN 0 ELSE ISqrt((4 * ss) \div d)
    IN  IF HasNaN(xs) THEN NaN
        ELSE IF twice % 2 = 0 THEN twice \div 2
        ELSE IF twice * twice * d = 4 * ss /\ ~tieUp
             THEN twice \div 2
             ELSE twice \div 2 + 1

\* round(np.std(xs), 2) of values in hundredths, in hundredths.
\* np.std is sqrt(mean(abs(xs - mean(xs)) ** 2)), the divisor N: with the
\* deviations scaled by N that is sqrt(ss / N^3).  twice is floor(2 * std);
\* an odd twice puts std in the upper half of its unit.
std2(xs, tieUp) ==
    LET n == Len(xs)
        dev == Deviations(xs)
        ss == SeqSum([i \in 1..n |-> dev[i] * dev[i]])
        twice == ISqrt((4 * ss) \div (n * n * n))
    IN  IF HasNaN(xs) THEN NaN
        ELSE IF twice % 2 = 0 THEN twice \div 2
        ELSE IF twice * twice * n * n * n = 4 * ss /\ ~tieUp
             THEN twice \div 2
             ELSE twice \div 2 + 1

--------------------------------------------------------------------------
(* backend/physics.py                                                      *)

\* update_position with the descent's sign flipped.
update_position_climbs(x, y, z, u_wind, v_wind, descent_rate, step) ==
    <<FloatAdd(x, FloatMul(u_wind, step)),
      FloatAdd(y, FloatMul(v_wind, step)),
      FloatAdd(z, FloatMul(descent_rate, step))>>

\* Lines 1-10.
update_position(x, y, z, u_wind, v_wind, descent_rate, step) ==
    <<FloatAdd(x, FloatMul(u_wind, step)),
      FloatAdd(y, FloatMul(v_wind, step)),
      FloatSub(z, FloatMul(descent_rate, step))>>

--------------------------------------------------------------------------
(* backend/simulator.py: simulate_payload_drop                             *)

\* The values a direct call is made with: drop altitudes of -10 m, 0,
\* 20 m, 35 m and 16.3845 km, descent rates of -1, 0, 4, 10 and
\* 4096.125 m/s.
DropAltitudes == {-80, 0, 160, 280, 131076}

DescentRates == {-8, 0, 32, 80, 32769}

RunCounts == {-1, 0, 1, 2}

Masses == {1, 5}

\* The return value's shape, before there is one.
NoResult ==
    [monte_carlo_runs |-> 0,
     landing_points |-> <<>>,
     landing_statistics |->
        [mean_x_drift_m |-> 0, mean_y_drift_m |-> 0,
         std_x_drift_m |-> 0, std_y_drift_m |-> 0],
     representative_trajectory |-> <<>>]

\* Lines 4-12: the activation on entry.  The signature has no seed and no
\* generator.  x, y, z and trajectory are not bound yet; only trajectory is
\* ever read unbound (line 61).  steps counts the loop iterations of each
\* run; u_drawn and v_drawn add up the winds the current run has sampled,
\* times dt, without rounding.
Call(drop_altitude_km, payload_mass, descent_rate, wind_model, monte_carlo_runs) ==
    [drop_altitude_km |-> drop_altitude_km,
     payload_mass |-> payload_mass,
     descent_rate |-> descent_rate,
     wind_model |-> wind_model,
     monte_carlo_runs |-> monte_carlo_runs,
     landing_points |-> <<>>,
     run |-> 0,
     x |-> 0, y |-> 0, z |-> 0,
     trajectory |-> <<>>,
     trajectory_bound |-> FALSE,
     current_alt_km |-> 0,
     u_mean |-> 0, v_mean |-> 0, u_std |-> 0, v_std |-> 0,
     u_scale |-> 0, v_scale |-> 0,
     u_sample |-> 0, v_sample |-> 0,
     u_drawn |-> 0, v_drawn |-> 0,
     steps |-> <<>>,
     pc |-> "for",
     raised |-> "none",
     result |-> NoResult]

\* HasNextRun with the range one item too long.
HasNextRunOffByOne(a) == a.run <= a.monte_carlo_runs

\* Line 14: range(monte_carlo_runs) has another item.
HasNextRun(a) == a.run < a.monte_carlo_runs

\* ForBody with `trajectory = []` hoisted out of the for loop.
ForBodyKeepsTrajectory(a) ==
    [a EXCEPT !.run = @ + 1,
              !.z = FloatRound((a.drop_altitude_km * MetresPerKm) \div MetresPerKm),
              !.x = 0,
              !.y = 0,
              !.trajectory_bound = TRUE,
              !.u_drawn = 0,
              !.v_drawn = 0,
              !.steps = Append(@, 0),
              !.pc = "while"]

\* ForBody with z = drop_altitude_km, the factor of 1000 left out.
ForBodyInKm(a) ==
    [a EXCEPT !.run = @ + 1,
              !.z = FloatRound(a.drop_altitude_km \div MetresPerKm),
              !.x = 0,
              !.y = 0,
              !.trajectory = <<>>,
              !.trajectory_bound = TRUE,
              !.u_drawn = 0,
              !.v_drawn = 0,
              !.steps = Append(@, 0),
              !.pc = "while"]

\* ForBody with `z = drop_altitude_km * 1000` hoisted out of the for loop.
ForBodyKeepsAltitude(a) ==
    [a EXCEPT !.run = @ + 1,
              !.z = IF a.run = 0
                    THEN FloatRound((a.drop_altitude_km * MetresPerKm) \div MetresPerKm)
                    ELSE @,
              !.x = 0,
              !.y = 0,
              !.trajectory = <<>>,
              !.trajectory_bound = TRUE,
              !.u_drawn = 0,
              !.v_drawn = 0,
              !.steps = Append(@, 0),
              !.pc = "while"]

\* ForBody with `x, y = 0.0, 0.0` hoisted out of the for loop.
ForBodyKeepsPosition(a) ==
    [a EXCEPT !.run = @ + 1,
              !.z = FloatRound((a.drop_altitude_km * MetresPerKm) \div MetresPerKm),
              !.trajectory = <<>>,
              !.trajectory_bound = TRUE,
              !.u_drawn = 0,
              !.v_drawn = 0,
              !.steps = Append(@, 0),
              !.pc = "while"]

\* Lines 15-17: a run starts.  drop_altitude_km counts 1/8000 km, so
\* drop_altitude_km * 1000 is that count, in eighths of a metre, as a float.
ForBody(a) ==
    [a EXCEPT !.run = @ + 1,
              !.z = FloatRound((a.drop_altitude_km * MetresPerKm) \div MetresPerKm),
              !.x = 0,
              !.y = 0,
              !.trajectory = <<>>,
              !.trajectory_bound = TRUE,
              !.u_drawn = 0,
              !.v_drawn = 0,
              !.steps = Append(@, 0),
              !.pc = "while"]

\* a + b with no rounding.
ExactAdd(a, b) == IF IsNaN(a) \/ IsNaN(b) THEN NaN ELSE a + b

\* WhileBody with a descent speed that grows with the payload's mass.
WhileBodyMassDrag(a, eu, ev) ==
    LET current_alt_km == a.z
        est == predict(a.wind_model, current_alt_km)
        u_scale == Max2(est.u_std, UStdFloor)
        v_scale == Max2(est.v_std, VStdFloor)
        u_sample == normal(est.u_mean, u_scale, eu)
        v_sample == normal(est.v_mean, v_scale, ev)
        pos == update_position(a.x, a.y, a.z, u_sample, v_sample,
                               FloatMul(a.descent_rate, a.payload_mass), dt)
    IN  [a EXCEPT !.current_alt_km = current_alt_km,
                  !.u_mean = est.u_mean, !.v_mean = est.v_mean,
                  !.u_std = est.u_std, !.v_std = est.v_std,
                  !.u_scale = u_scale, !.v_scale = v_scale,
                  !.u_sample = u_sample, !.v_sample = v_sample,
                  !.u_drawn = ExactAdd(@, u_sample * dt),
                  !.v_drawn = ExactAdd(@, v_sample * dt),
                  !.x = pos[1], !.y = pos[2], !.z = pos[3],
                  !.trajectory = Append(@,
                      [altitude_km |-> RoundAlt(current_alt_km),
                       x_drift_m |-> Round2(pos[1]),
                       y_drift_m |-> Round2(pos[2])]),
                  !.steps = [@ EXCEPT ![a.run] = @ + 1]]

\* WhileBody with the trajectory point taken after the step: its altitude
\* is that of the step's end.
WhileBodyRecordsAfter(a, eu, ev) ==
    LET current_alt_km == a.z
        est == predict(a.wind_model, current_alt_km)
        u_scale == Max2(est.u_std, UStdFloor)
        v_scale == Max2(est.v_std, VStdFloor)
        u_sample == normal(est.u_mean, u_scale, eu)
        v_sample == normal(est.v_mean, v_scale, ev)
        pos == update_position(a.x, a.y, a.z, u_sample, v_sample,
                               a.descent_rate, dt)
    IN  [a EXCEPT !.current_alt_km = current_alt_km,
                  !.u_mean = est.u_mean, !.v_mean = est.v_mean,
                  !.u_std = est.u_std, !.v_std = est.v_std,
                  !.u_scale = u_scale, !.v_scale = v_scale,
                  !.u_sample = u_sample, !.v_sample = v_sample,
                  !.u_drawn = ExactAdd(@, u_sample * dt),
                  !.v_drawn = ExactAdd(@, v_sample * dt),
                  !.x = pos[1], !.y = pos[2], !.z = pos[3],
                  !.trajectory = Append(@,
                      [altitude_km |-> RoundAlt(pos[3]),
                       x_drift_m |-> Round2(pos[1]),
                       y_drift_m |-> Round2(pos[2])]),
                  !.steps = [@ EXCEPT ![a.run] = @ + 1]]

\* WhileBody that carries on from the rounded position it has recorded.
WhileBodyKeepsRounded(a, eu, ev) ==
    LET current_alt_km == a.z
        est == predict(a.wind_model, current_alt_km)
        u_scale == Max2(est.u_std, UStdFloor)
        v_scale == Max2(est.v_std, VStdFloor)
        u_sample == normal(est.u_mean, u_scale, eu)
        v_sample == normal(est.v_mean, v_scale, ev)
        pos == update_position(a.x, a.y, a.z, u_sample, v_sample,
                               a.descent_rate, dt)
    IN  [a EXCEPT !.current_alt_km = current_alt_km,
                  !.u_mean = est.u_mean, !.v_mean = est.v_mean,
                  !.u_std = est.u_std, !.v_std = est.v_std,
                  !.u_scale = u_scale, !.v_scale = v_scale,
                  !.u_sample = u_sample, !.v_sample = v_sample,
                  !.u_drawn = ExactAdd(@, u_sample * dt),
                  !.v_drawn = ExactAdd(@, v_sample * dt),
                  !.x = (Round2(pos[1]) * DriftGrid) \div 10 ^ Places,
                  !.y = (Round2(pos[2]) * DriftGrid) \div 10 ^ Places,
                  !.z = pos[3],
                  !.trajectory = Append(@,
                      [altitude_km |-> RoundAlt(current_alt_km),
                       x_drift_m |-> Round2(pos[1]),
                       y_drift_m |-> Round2(pos[2])]),
                  !.steps = [@ EXCEPT ![a.run] = @ + 1]]

\* Lines 20-41: one timestep, the two draws lying eu and ev from the means.
\* current_alt_km = z / 1000 counts 1/8000 km: the count is z.  The point
\* appended holds rounded copies; x, y and z go on unrounded.
WhileBody(a, eu, ev) ==
    LET current_alt_km == a.z
        est == predict(a.wind_model, current_alt_km)
        u_scale == Max2(est.u_std, UStdFloor)
        v_scale == Max2(est.v_std, VStdFloor)
        u_sample == normal(est.u_mean, u_scale, eu)
        v_sample == normal(est.v_mean, v_scale, ev)
        pos == update_position(a.x, a.y, a.z, u_sample, v_sample,
                               a.descent_rate, dt)
    IN  [a EXCEPT !.current_alt_km = current_alt_km,
                  !.u_mean = est.u_mean, !.v_mean = est.v_mean,
                  !.u_std = est.u_std, !.v_std = est.v_std,
                  !.u_scale = u_scale, !.v_scale = v_scale,
                  !.u_sample = u_sample, !.v_sample = v_sample,
                  !.u_drawn = ExactAdd(@, u_sample * dt),
                  !.v_drawn = ExactAdd(@, v_sample * dt),
                  !.x = pos[1], !.y = pos[2], !.z = pos[3],
                  !.trajectory = Append(@,
                      [altitude_km |-> RoundAlt(current_alt_km),
                       x_drift_m |-> Round2(pos[1]),
                       y_drift_m |-> Round2(pos[2])]),
                  !.steps = [@ EXCEPT ![a.run] = @ + 1]]

\* Lines 43-46: the run has landed.
WhileExit(a) ==
    [a EXCEPT !.landing_points = Append(@,
                  [x_drift_m |-> Round2(a.x), y_drift_m |-> Round2(a.y)]),
              !.pc = "for"]

\* Lines 49-50.
landing_x(a) == [i \in 1..Len(a.landing_points) |-> a.landing_points[i].x_drift_m]

landing_y(a) == [i \in 1..Len(a.landing_points) |-> a.landing_points[i].y_drift_m]

\* Lines 48-62.  The dict display is evaluated in order: the statistics
\* first (np.mean and np.std of an empty list are nan, with a warning),
\* then trajectory, which no run has bound when the for loop ran no body:
\* UnboundLocalError.  ties: which way each of the four statistics goes
\* when it sits on an exact half.
Assemble(a, ties) ==
    IF ~a.trajectory_bound
    THEN [a EXCEPT !.pc = "raised", !.raised = "UnboundLocalError"]
    ELSE [a EXCEPT
            !.pc = "returned",
            !.result =
               [monte_carlo_runs |-> a.monte_carlo_runs,
                landing_points |-> a.landing_points,
                landing_statistics |->
                   [mean_x_drift_m |-> mean2(landing_x(a), ties[1]),
                    mean_y_drift_m |-> mean2(landing_y(a), ties[2]),
                    std_x_drift_m |-> std2(landing_x(a), ties[3]),
                    std_y_drift_m |-> std2(landing_y(a), ties[4])],
                representative_trajectory |-> a.trajectory]]

\* Loop iterations so far, over all runs.
TotalSteps(a) == SeqSum(a.steps)

\* One step of an activation from wherever it stands.
Advance(a, eu, ev, ties) ==
    CASE a.pc = "for" -> IF HasNextRun(a) THEN ForBody(a)
                         ELSE [a EXCEPT !.pc = "return"]
      [] a.pc = "while" -> IF a.z > 0 THEN WhileBody(a, eu, ev)
                           ELSE WhileExit(a)
      [] a.pc = "return" -> Assemble(a, ties)
      [] OTHER -> a

--------------------------------------------------------------------------
(* backend/main.py                                                         *)

\* The query parameters of POST /simulate-drop: altitudes of 19.9995,
\* 20, 50 and 50.001 km, descent rates of -1, 0, 0.125 and 5 m/s and
\* descent_rate=nan, which parses as a float.
RequestAltitudes == {159996, 160000, 400000, 400008}

RequestRates == {-8, 0, 1, 40, NaN}

RequestRuns == {9, 10, 200, 201}

\* The module's state: where its import stands ("import", then "serving"
\* or "failed"), the exception the import ended with and the one it
\* wrapped, the global wind_model, and the answer to the request when the
\* handler refused it.  "unused": the simulator is called without it.
Server(csv_path) ==
    [csv_path |-> csv_path,
     pc |-> "import",
     raised |-> "none",
     cause |-> "none",
     wind_model |-> "unset",
     status_code |-> 0,
     detail |-> "none"]

NoServer == [Server("none") EXCEPT !.pc = "unused"]

\* Lines 19-22: any exception of the constructor becomes a RuntimeError
\* that carries its text.
LoadedWindModel(m) ==
    LET made == WindModel_init(m.csv_path)
    IN  IF made.raised # "none"
        THEN [m EXCEPT !.pc = "failed", !.raised = "RuntimeError",
                       !.cause = made.raised]
        ELSE [m EXCEPT !.pc = "serving", !.wind_model = made.model]

\* Lines 56-61: the refusal a request meets, "none" when it is let through.
\* `descent_rate <= 0` is false of nan, as every comparison is.
Refusal(drop_altitude_km, descent_rate, monte_carlo_runs) ==
    IF ~(/\ MinDropKm * AltGrid <= drop_altitude_km
         /\ drop_altitude_km <= MaxDropKm * AltGrid)
    THEN "Drop altitude must be between 20 and 50 km"
    ELSE IF ~IsNaN(descent_rate) /\ descent_rate <= 0
    THEN "Descent rate must be positive"
    ELSE IF ~(MinRuns <= monte_carlo_runs /\ monte_carlo_runs <= MaxRuns)
    THEN "Monte Carlo runs must be between 10 and 200"
    ELSE "none"

\* Lines 34-35: get_wind_profile answers 400 to an altitude outside
\* 20..80 km, before it asks the wind model.
ProfileRefused(altitude_km) ==
    ~(/\ MinProfileKm * AltGrid <= altitude_km
      /\ altitude_km <= MaxProfileKm * AltGrid)

\* The arguments of a request the handler has yet to look at.
Request(drop_altitude_km, payload_mass, descent_rate, monte_carlo_runs) ==
    [Call(drop_altitude_km, payload_mass, descent_rate, "unset", monte_carlo_runs)
        EXCEPT !.pc = "uncalled"]

\* Lines 63-69: the call the handler makes.
Invoked(a, wind_model) ==
    Call(a.drop_altitude_km, a.payload_mass, a.descent_rate, wind_model,
         a.monte_carlo_runs)

--------------------------------------------------------------------------
(* The state machine.  frame is a call of simulate_payload_drop; twin is   *)
(* a second call with the same arguments but for payload_mass, fed the     *)
(* same draws, so that the two can be compared.  np_random is numpy's      *)
(* process-wide generator: served counts the draws it has handed out.      *)
(* tape belongs to a stand-in for it that plays the draws of the first run *)
(* again in every later run.                                               *)

NoTies == <<FALSE, FALSE, FALSE, FALSE>>

Ties == [1..4 -> BOOLEAN]

Generator == [served |-> 0, tape |-> <<>>]

\* simulate_payload_drop called directly with one of the models.
InitDirect(models) ==
    \E alt \in DropAltitudes, rate \in DescentRates, n \in RunCounts,
       wm \in models, mass \in Masses, other \in Masses :
        /\ mass < other
        /\ frame = Call(alt, mass, rate, wm, n)
        /\ twin = Call(alt, other, rate, wm, n)
        /\ main = NoServer
        /\ np_random = Generator

\* main.py imported, and one request to POST /simulate-drop.
InitHttp ==
    \E alt \in RequestAltitudes, rate \in RequestRates, n \in RequestRuns,
       csv \in DataFiles, mass \in Masses, other \in Masses :
        /\ mass < other
        /\ frame = Request(alt, mass, rate, n)
        /\ twin = Request(alt, other, rate, n)
        /\ main = Server(csv)
        /\ np_random = Generator

Init == InitDirect({"calm", "shear"}) \/ InitHttp

LoadWindModel ==
    /\ main.pc = "import"
    /\ main' = LoadedWindModel(main)
    /\ UNCHANGED <<frame, twin, np_random>>

simulate_drop ==
    /\ main.pc = "serving"
    /\ main.status_code = 0
    /\ frame.pc = "uncalled"
    /\ LET refusal == Refusal(frame.drop_altitude_km, frame.descent_rate,
                              frame.monte_carlo_runs)
       IN  IF refusal # "none"
           THEN /\ main' = [main EXCEPT !.status_code = 400, !.detail = refusal]
                /\ UNCHANGED <<frame, twin>>
           ELSE /\ frame' = Invoked(frame, main.wind_model)
                /\ twin' = Invoked(twin, main.wind_model)
                /\ UNCHANGED main
    /\ UNCHANGED np_random

ForNext ==
    /\ frame.pc = "for"
    /\ HasNextRun(frame)
    /\ frame' = ForBody(frame)
    /\ twin' = Advance(twin, 0, 0, NoTies)
    /\ UNCHANGED <<main, np_random>>

ForEnd ==
    /\ frame.pc = "for"
    /\ ~HasNextRun(frame)
    /\ frame' = [frame EXCEPT !.pc = "return"]
    /\ twin' = Advance(twin, 0, 0, NoTies)
    /\ UNCHANGED <<main, np_random>>

\* Lines 26-27 draw from np.random, the generator every caller shares.
WhileStep ==
    /\ frame.pc = "while"
    /\ frame.z > 0
    /\ TotalSteps(frame) < MaxSteps
    /\ \E eu \in Noise, ev \in Noise :
        /\ frame' = WhileBody(frame, eu, ev)
        /\ twin' = Advance(twin, eu, ev, NoTies)
    /\ np_random' = [np_random EXCEPT !.served = @ + 2]
    /\ UNCHANGED main

WhileEnd ==
    /\ frame.pc = "while"
    /\ ~(frame.z > 0)
    /\ frame' = WhileExit(frame)
    /\ twin' = Advance(twin, 0, 0, NoTies)
    /\ UNCHANGED <<main, np_random>>

Return ==
    /\ frame.pc = "return"
    /\ \E ties \in Ties :
        /\ frame' = Assemble(frame, ties)
        /\ twin' = Advance(twin, 0, 0, ties)
    /\ UNCHANGED <<main, np_random>>

Next ==
    \/ LoadWindModel
    \/ simulate_drop
    \/ ForNext
    \/ ForEnd
    \/ WhileStep
    \/ WhileEnd
    \/ Return

Spec == Init /\ [][Next]_vars

--------------------------------------------------------------------------
(* The simulator handed a wind model whose prediction is not finite.       *)

InitDiverging == InitDirect({"diverging"}) \/ InitHttp

SpecDiverging == InitDiverging /\ [][Next]_vars

--------------------------------------------------------------------------
(* np.random.normal replaced by a stand-in that gives every run the draws  *)
(* of the first run again, step by step.                                   *)

InitReplay ==
    \E alt \in DropAltitudes, rate \in DescentRates, n \in RunCounts,
       wm \in {"calm", "shear"}, mass \in Masses, other \in Masses :
        /\ mass < other
        /\ alt > 0
        /\ rate > 0
        /\ n >= 1
        /\ frame = Call(alt, mass, rate, wm, n)
        /\ twin = Call(alt, other, rate, wm, n)
        /\ main = NoServer
        /\ np_random = Generator

\* The draws the stand-in may give at step k of the run.
Replayed(a, tape, k) ==
    IF a.run = 1 THEN Noise \X Noise
    ELSE IF k <= Len(tape) THEN {tape[k]} ELSE {}

WhileStepReplay ==
    /\ frame.pc = "while"
    /\ frame.z > 0
    /\ TotalSteps(frame) < MaxSteps
    /\ \E e \in Replayed(frame, np_random.tape, frame.steps[frame.run] + 1) :
        /\ frame' = WhileBody(frame, e[1], e[2])
        /\ twin' = Advance(twin, e[1], e[2], NoTies)
        /\ np_random' = [np_random EXCEPT
                            !.tape = IF frame.run = 1 THEN Append(@, e) ELSE @]
    /\ UNCHANGED main

NextReplay == ForNext \/ ForEnd \/ WhileStepReplay \/ WhileEnd \/ Return

SpecReplay == InitReplay /\ [][NextReplay]_vars

--------------------------------------------------------------------------
(* np.random.normal replaced by a stand-in that returns its loc: the wind  *)
(* of every step is the predicted one, unchanged.  The descents are run to *)
(* the ground.                                                             *)

\* 10 km at 10 m/s in a steady wind of u = 2 m/s, v = 0.
SteadyDrop(mass) == Call(10 * AltGrid, mass, 10 * DriftGrid, "steady", 1)

\* 30 km at 5 m/s in no wind.
CalmDrop(mass) == Call(30 * AltGrid, mass, 5 * DriftGrid, "calm", 1)

InitScenario ==
    /\ \/ \E mass \in Masses : frame \in {SteadyDrop(mass), CalmDrop(mass)}
       \/ \E alt \in {160, 280}, rate \in {32, 80}, n \in {1, 2},
             wm \in {"calm", "shear"}, mass \in Masses :
            frame = Call(alt, mass, rate, wm, n)
    /\ twin = Request(0, 0, 0, 0)
    /\ main = NoServer
    /\ np_random = Generator

WhileStepUnperturbed ==
    /\ frame.pc = "while"
    /\ frame.z > 0
    /\ frame' = WhileBody(frame, 0, 0)
    /\ twin' = Advance(twin, 0, 0, NoTies)
    /\ UNCHANGED <<main, np_random>>

NextScenario ==
    ForNext \/ ForEnd \/ WhileStepUnperturbed \/ WhileEnd \/ Return

SpecScenario == InitScenario /\ [][NextScenario]_vars

-----
(* Properties.                                                             *)

\* ceil(a / b), b > 0.
CeilDiv(a, b) == -((-a) \div b)

Ended(a) == a.pc \in {"returned", "raised"}

\* The call failed with InvalidParameterError, or may still do so.
RejectsAsInvalid(a) ==
    /\ a.pc # "returned"
    /\ a.raised \in {"none", "InvalidParameterError"}

\* C1: with drop_altitude_km > 0 and descent_rate > 0 no run takes more
\* than ceil(drop_altitude_km * 1000 / descent_rate) timesteps, whatever
\* winds are drawn.
C1_RunWithinStepBound ==
    (frame.drop_altitude_km > 0 /\ frame.descent_rate > 0) =>
        \A r \in 1..Len(frame.steps) :
            frame.steps[r] <= CeilDiv(frame.drop_altitude_km, frame.descent_rate)

\* C2: a call with descent_rate <= 0 (its other arguments valid) takes no
\* integration step and fails with InvalidParameterError.
C2_NonPositiveRateRejected ==
    (/\ ~IsNaN(frame.descent_rate)
     /\ frame.descent_rate <= 0
     /\ frame.drop_altitude_km > 0
     /\ frame.monte_carlo_runs >= 1) =>
        TotalSteps(frame) = 0 /\ RejectsAsInvalid(frame)

\* C3: a call with monte_carlo_runs < 1 fails with InvalidParameterError:
\* it neither returns a result nor fails with another fault.
C3_NoRunsRejected ==
    frame.monte_carlo_runs < 1 => RejectsAsInvalid(frame)

\* The state C3's call ends in: the unbound local of line 61.
C3_EndsUnboundLocal ==
    /\ frame.monte_carlo_runs < 1
    /\ frame.pc = "raised"
    /\ frame.raised = "UnboundLocalError"

\* C4: a call with drop_altitude_km <= 0 (its other arguments valid) fails
\* with InvalidParameterError and returns no result.
C4_NonPositiveAltitudeRejected ==
    (/\ frame.drop_altitude_km <= 0
     /\ frame.descent_rate > 0
     /\ frame.monte_carlo_runs >= 1) =>
        RejectsAsInvalid(frame)

\* The state C4's call ends in: a normal result, its trajectory empty and
\* every landing point (0, 0).
C4_ReturnsEmptyDescent ==
    /\ frame.drop_altitude_km <= 0
    /\ frame.pc = "returned"
    /\ frame.result.representative_trajectory = <<>>
    /\ Len(frame.result.landing_points) = frame.monte_carlo_runs
    /\ \A i \in 1..Len(frame.result.landing_points) :
        frame.result.landing_points[i] = [x_drift_m |-> 0, y_drift_m |-> 0]

\* Runs whose while loop has been left.
CompletedRuns(a) == IF a.pc = "while" THEN a.run - 1 ELSE a.run

\* The landing point line 43 records for the position (x, y).
LandingAt(x, y) == [x_drift_m |-> Round2(x), y_drift_m |-> Round2(y)]

\* C5: with monte_carlo_runs = N >= 1 the call executes exactly N runs;
\* landing_points gains one entry per finished run, in execution order, so
\* the result holds N of them, and its monte_carlo_runs is N.
C5_OneLandingPointPerRun ==
    frame.monte_carlo_runs >= 1 =>
        /\ frame.pc # "raised"
        /\ frame.run <= frame.monte_carlo_runs
        /\ Len(frame.steps) = frame.run
        /\ Len(frame.landing_points) = CompletedRuns(frame)
        /\ (frame.pc = "for" /\ frame.run >= 1) =>
              frame.landing_points[frame.run] = LandingAt(frame.x, frame.y)
        /\ frame.pc \in {"return", "returned"} =>
              frame.run = frame.monte_carlo_runs
        /\ frame.pc = "returned" =>
              /\ Len(frame.result.landing_points) = frame.monte_carlo_runs
              /\ frame.result.landing_points = frame.landing_points
              /\ frame.result.monte_carlo_runs = frame.monte_carlo_runs

\* A call of two runs has returned, their landing points apart.
C5_TwoRunsReturned ==
    /\ frame.pc = "returned"
    /\ frame.monte_carlo_runs = 2
    /\ Len(frame.result.landing_points) = 2
    /\ frame.result.landing_points[1] # frame.result.landing_points[2]

\* m is the mean of ks to within the half unit round(., 2) leaves.
IsRoundedMean(m, ks) == 2 * Abs(Len(ks) * m - SeqSum(ks)) <= Len(ks)

\* N^2 times the population variance of ks: N * sum(k^2) - sum(k)^2.
ScaledVariance(ks) ==
    Len(ks) * SeqSum([i \in 1..Len(ks) |-> ks[i] * ks[i]]) - SeqSum(ks) * SeqSum(ks)

\* sd is the population standard deviation of ks to within half a unit.
IsRoundedPopulationStd(sd, ks) ==
    LET n == Len(ks)
    IN  /\ sd >= 0
        /\ sd = 0 \/ (2 * sd - 1) * (2 * sd - 1) * n * n <= 4 * ScaledVariance(ks)
        /\ 4 * ScaledVariance(ks) <= (2 * sd + 1) * (2 * sd + 1) * n * n

\* C6: landing_statistics holds the mean and the population standard
\* deviation (divisor N) of all the call's landing points, each to two
\* decimals; both deviations are >= 0, and with one run they are 0 and the
\* means are that run's landing point.
C6_PopulationStatistics ==
    frame.pc = "returned" =>
        LET st == frame.result.landing_statistics
            xs == landing_x(frame.result)
            ys == landing_y(frame.result)
        IN  /\ Len(xs) = frame.monte_carlo_runs
            /\ IsRoundedMean(st.mean_x_drift_m, xs)
            /\ IsRoundedMean(st.mean_y_drift_m, ys)
            /\ IsRoundedPopulationStd(st.std_x_drift_m, xs)
            /\ IsRoundedPopulationStd(st.std_y_drift_m, ys)
            /\ frame.monte_carlo_runs = 1 =>
                  /\ st.std_x_drift_m = 0
                  /\ st.std_y_drift_m = 0
                  /\ st.mean_x_drift_m = xs[1]
                  /\ st.mean_y_drift_m = ys[1]

\* Two runs landed apart in x and in y, and the result shows the spread.
C6_SpreadReported ==
    /\ frame.pc = "returned"
    /\ frame.monte_carlo_runs = 2
    /\ frame.result.landing_statistics.std_x_drift_m > 0
    /\ frame.result.landing_statistics.std_y_drift_m > 0

\* C7: representative_trajectory is the trajectory of the last run alone:
\* it has one point per timestep of run N and none of an earlier run, it
\* starts at the drop altitude, and its last point's drift is the last
\* entry of landing_points.
C7_LastRunTrajectory ==
    frame.pc = "returned" =>
        LET rep == frame.result.representative_trajectory
            n == frame.monte_carlo_runs
            last == frame.result.landing_points[n]
        IN  /\ Len(rep) = frame.steps[n]
            /\ rep # <<>> =>
                /\ rep[1].altitude_km = RoundAlt(FloatRound(frame.drop_altitude_km))
                /\ rep[Len(rep)].x_drift_m = last.x_drift_m
                /\ rep[Len(rep)].y_drift_m = last.y_drift_m

\* Two runs of at least two timesteps each have returned.
C7_SecondRunReturned ==
    /\ frame.pc = "returned"
    /\ frame.monte_carlo_runs = 2
    /\ frame.steps[1] >= 2
    /\ Len(frame.result.representative_trajectory) >= 2

\* C8 as claimed: the recorded altitude_km values of a run are strictly
\* decreasing in insertion order, for every descent_rate > 0.
C8_AltitudeStrictlyDecreasing ==
    (frame.drop_altitude_km > 0 /\ frame.descent_rate > 0) =>
        \A i \in 1..(Len(frame.trajectory) - 1) :
            frame.trajectory[i + 1].altitude_km < frame.trajectory[i].altitude_km

\* C8 as amended: the recorded altitude_km values of a run never increase
\* in insertion order, for every descent_rate > 0.
C8_AltitudeNeverIncreases ==
    (frame.drop_altitude_km > 0 /\ frame.descent_rate > 0) =>
        \A i \in 1..(Len(frame.trajectory) - 1) :
            frame.trajectory[i + 1].altitude_km <= frame.trajectory[i].altitude_km

\* A run below 10 m/s has recorded the same altitude_km twice in a row and
\* then a lower one.
C8_RepeatedAltitude ==
    /\ frame.drop_altitude_km > 0
    /\ frame.descent_rate > 0
    /\ frame.descent_rate < 10 * DriftGrid
    /\ \E i \in 1..(Len(frame.trajectory) - 2) :
        /\ frame.trajectory[i + 1].altitude_km = frame.trajectory[i].altitude_km
        /\ frame.trajectory[i + 2].altitude_km < frame.trajectory[i + 1].altitude_km

\* frame and twin were called with the same arguments but for payload_mass.
SameButForMass ==
    /\ twin.payload_mass # frame.payload_mass
    /\ twin.drop_altitude_km = frame.drop_altitude_km
    /\ twin.descent_rate = frame.descent_rate
    /\ twin.wind_model = frame.wind_model
    /\ twin.monte_carlo_runs = frame.monte_carlo_runs

\* C9: two calls that differ only in payload_mass and are fed the same
\* draws end alike, with the same landing_points, landing_statistics and
\* representative_trajectory.
C9_PayloadMassIgnored ==
    /\ SameButForMass
    /\ Ended(frame) =>
        /\ twin.pc = frame.pc
        /\ twin.raised = frame.raised
        /\ twin.result.landing_points = frame.result.landing_points
        /\ twin.result.landing_statistics = frame.result.landing_statistics
        /\ twin.result.representative_trajectory =
              frame.result.representative_trajectory

\* Both calls have returned after runs of several timesteps with winds drawn
\* off the mean.
C9_BothReturned ==
    /\ frame.pc = "returned"
    /\ twin.pc = "returned"
    /\ SameButForMass
    /\ Len(frame.result.representative_trajectory) >= 2
    /\ frame.result.landing_points[1].x_drift_m # 0

\* C10: the simulator has a deterministic mode, in which every timestep's
\* wind is the predicted u_mean, v_mean itself.  simulate_payload_drop
\* takes no such switch, so the mode would be the call as it is.
C10_StepUsesPredictedMean ==
    TotalSteps(frame) > 0 =>
        /\ frame.u_sample = frame.u_mean
        /\ frame.v_sample = frame.v_mean

\* C11: the simulation takes the random source of its draws as an argument,
\* so what a timestep draws is settled by the call's own state and two
\* calls with the same arguments and the same source return the same; no
\* draw is taken from the generator the whole process shares.
C11_DrawsFromOwnSource ==
    /\ np_random.served = 0
    /\ (frame.pc = "while" /\ frame.z > 0) =>
          \A eu \in Noise, ev \in Noise :
              WhileBody(frame, eu, ev) = WhileBody(frame, 0, 0)

\* A call has returned on draws of the shared generator, its landing point
\* one of several the same arguments lead to.
C11_ReturnedOnSharedDraws ==
    /\ frame.pc = "returned"
    /\ np_random.served >= 2
    /\ frame.u_sample # frame.u_mean

\* The files from which no usable wind model is to come.
UnusableData == {"absent", "empty", "malformed", "nonfinite", "same_altitude"}

\* C12: when the sample data is absent, malformed, empty, holds a
\* non-finite value or has one altitude only, constructing the wind model
\* fails with DataError and no wind model comes into use.
C12_UnusableDataRaisesDataError ==
    (main.csv_path \in UnusableData /\ main.pc # "import") =>
        /\ main.pc = "failed"
        /\ "DataError" \in {main.raised, main.cause}
        /\ main.wind_model = "unset"

\* Soundings of a single altitude were fitted and the simulator has taken
\* timesteps in the wind model that came of them.
C12_ServesFromOneAltitude ==
    /\ main.csv_path = "same_altitude"
    /\ main.pc = "serving"
    /\ frame.wind_model = main.wind_model
    /\ TotalSteps(frame) >= 2

\* The values of the result, landing points first.
ResultValues(a) ==
    landing_x(a.result) \o landing_y(a.result) \o
    <<a.result.landing_statistics.mean_x_drift_m,
      a.result.landing_statistics.mean_y_drift_m,
      a.result.landing_statistics.std_x_drift_m,
      a.result.landing_statistics.std_y_drift_m>>

\* C13: once a predicted wind or the position is not finite the simulation
\* reports NumericError, and no non-finite value is in landing_points or in
\* the returned result.
C13_NonFiniteReported ==
    /\ (\/ IsNaN(frame.u_mean) \/ IsNaN(frame.v_mean)
        \/ IsNaN(frame.x) \/ IsNaN(frame.y) \/ IsNaN(frame.z)) =>
          frame.raised = "NumericError"
    /\ ~HasNaN(landing_x(frame))
    /\ ~HasNaN(landing_y(frame))
    /\ ~HasNaN(ResultValues(frame))

\* A call has returned nan as a landing point and as its mean drift.
C13_ReturnedNaN ==
    /\ frame.pc = "returned"
    /\ IsNaN(frame.result.landing_points[1].x_drift_m)
    /\ IsNaN(frame.result.landing_statistics.mean_x_drift_m)
    /\ IsNaN(frame.result.landing_statistics.std_x_drift_m)

\* The call came from the HTTP handler.
ViaHttp == main.pc # "unused"

\* The handler lets through the requests within the three ranges and
\* answers every other one with 400, the simulator not called.
HandlerGuardsSimulator ==
    ViaHttp =>
        LET within ==
               /\ MinDropKm * AltGrid <= frame.drop_altitude_km
               /\ frame.drop_altitude_km <= MaxDropKm * AltGrid
               /\ ~IsNaN(frame.descent_rate)
               /\ frame.descent_rate > 0
               /\ MinRuns <= frame.monte_carlo_runs
               /\ frame.monte_carlo_runs <= MaxRuns
        IN  /\ frame.pc # "uncalled" => within /\ main.status_code = 0
            /\ main.status_code = 400 =>
                  /\ ~within
                  /\ frame.pc = "uncalled"
                  /\ np_random.served = 0
            /\ main.status_code \in {0, 400}
            /\ (main.pc = "serving" /\ frame.pc = "uncalled"
                /\ main.status_code = 0) =>
                  (within <=> Refusal(frame.drop_altitude_km, frame.descent_rate,
                                      frame.monte_carlo_runs) = "none")

\* Every timestep of a call the handler let through has left z lower than
\* it found it.
RequestDescends ==
    (ViaHttp /\ frame.pc = "while" /\ frame.steps[frame.run] > 0) =>
        IsNaN(frame.z) \/ frame.z < frame.current_alt_km

\* C14: the handler calls the simulator only for 20 <= drop_altitude_km <=
\* 50, descent_rate > 0 and 10 <= monte_carlo_runs <= 200 and answers every
\* other request with 400 without calling it, so that no request starts a
\* descent loop that does not end.
C14_NoRequestLoopsForever == HandlerGuardsSimulator /\ RequestDescends

\* A request within the ranges is in the loop, z where it was before its
\* timesteps.
C14_AcceptedRequestStuck ==
    /\ ViaHttp
    /\ main.status_code = 0
    /\ frame.descent_rate > 0
    /\ frame.pc = "while"
    /\ frame.steps[frame.run] >= 2
    /\ frame.z = FloatRound(frame.drop_altitude_km)
    /\ frame.z > 0

\* The call is the steady-wind drop: 10 km at 10 m/s, u = 2 m/s, v = 0.
IsSteadyDrop(a) ==
    /\ a.drop_altitude_km = 10 * AltGrid
    /\ a.descent_rate = 10 * DriftGrid
    /\ a.wind_model = "steady"

\* C15 as claimed: with drop_altitude_km = 10, descent_rate = 10 and a wind
\* of u = 2, v = 0 at every timestep, a single run lands at x = 200.0 m,
\* to within a metre, and y = 0.0.
C15_SteadyDropLandsAt200 ==
    (IsSteadyDrop(frame) /\ frame.pc = "returned") =>
        /\ Abs(frame.result.landing_points[1].x_drift_m - 200 * 10 ^ Places)
              <= 10 ^ Places
        /\ frame.result.landing_points[1].y_drift_m = 0

\* C15 as amended: with drop_altitude_km = 10, descent_rate = 10 and a wind
\* of u = 2, v = 0 at every timestep, a single run takes 1000 timesteps and
\* lands at x = 2000.0 m and y = 0.0.
C15_SteadyDropLandsAt2000 ==
    (IsSteadyDrop(frame) /\ frame.pc = "returned") =>
        /\ frame.steps = <<1000>>
        /\ frame.result.landing_points =
              <<[x_drift_m |-> 2000 * 10 ^ Places, y_drift_m |-> 0]>>

\* The steady-wind drop has returned, every timestep's wind u = 2 m/s.
C15_SteadyDropReturned ==
    /\ IsSteadyDrop(frame)
    /\ frame.pc = "returned"
    /\ frame.u_sample = 2 * DriftGrid
    /\ frame.v_sample = 0
    /\ Len(frame.result.representative_trajectory) = 1000

\* The call is the windless drop: 30 km at 5 m/s.
IsCalmDrop(a) ==
    /\ a.drop_altitude_km = 30 * AltGrid
    /\ a.descent_rate = 5 * DriftGrid
    /\ a.wind_model = "calm"

\* C16: every timestep records exactly one trajectory point, whose
\* altitude_km is the altitude at the start of that timestep: the first
\* point carries the drop altitude and the trajectory is as long as the run
\* has timesteps.  With drop_altitude_km = 30, descent_rate = 5 and no wind
\* the trajectory has exactly 6000 points and the landing point is (0, 0).
C16_OnePointPerStep ==
    /\ frame.run >= 1 =>
          /\ Len(frame.trajectory) = frame.steps[frame.run]
          /\ frame.trajectory # <<>> =>
                /\ frame.trajectory[1].altitude_km =
                      RoundAlt(FloatRound(frame.drop_altitude_km))
                /\ frame.trajectory[Len(frame.trajectory)].altitude_km =
                      RoundAlt(frame.current_alt_km)
                /\ frame.z = FloatSub(frame.current_alt_km,
                                      FloatMul(frame.descent_rate, dt))
                /\ frame.current_alt_km =
                      frame.drop_altitude_km
                        - (Len(frame.trajectory) - 1) * frame.descent_rate * dt
    /\ (IsCalmDrop(frame) /\ frame.pc = "returned") =>
          /\ Len(frame.result.representative_trajectory) = 6000
          /\ frame.result.landing_points =
                <<[x_drift_m |-> 0, y_drift_m |-> 0]>>

\* The windless drop has returned its 6000 points, from 30.0 km down to the
\* 5 m of the last timestep's start, recorded as 0.01 km.
C16_CalmDropReturned ==
    /\ IsCalmDrop(frame)
    /\ frame.pc = "returned"
    /\ frame.result.representative_trajectory[1].altitude_km = 30 * 10 ^ Places
    /\ frame.result.representative_trajectory[6000].altitude_km = 1
    /\ frame.current_alt_km = 5 * DriftGrid

\* C17: when every run is given the same wind sample at each timestep, all
\* the landing points of the call are equal and std_x = std_y = 0.
C17_SameDrawsSameLanding ==
    /\ \A i \in 1..Len(frame.landing_points) :
          frame.landing_points[i] = frame.landing_points[1]
    /\ frame.pc = "returned" =>
          /\ frame.result.landing_statistics.std_x_drift_m = 0
          /\ frame.result.landing_statistics.std_y_drift_m = 0
          /\ frame.result.landing_statistics.mean_x_drift_m =
                frame.result.landing_points[1].x_drift_m

\* Two runs of two timesteps each were given the same draws, one of them
\* off the mean, and the call has returned.
C17_ReplayedRunsReturned ==
    /\ frame.pc = "returned"
    /\ frame.monte_carlo_runs = 2
    /\ frame.steps = <<2, 2>>
    /\ np_random.tape \in {<<<<1, 0>>, <<0, 1>>>>, <<<<0, 1>>, <<1, 1>>>>}
    /\ frame.result.landing_points[2].x_drift_m # 0

\* C18: every run, not only the first, starts from x = 0, y = 0,
\* z = drop_altitude_km * 1000 with an empty trajectory, and every timestep
\* adds the sampled wind times dt to x and y and takes descent_rate * dt
\* from z, dt = 1; so a run's landing point is the sum of that run's own
\* sampled winds times dt, with nothing of an earlier run in it.
C18_RunStartsAfresh ==
    frame.run >= 1 =>
        /\ dt = 1
        /\ (frame.pc = "while" /\ frame.steps[frame.run] = 0) =>
              /\ frame.x = 0
              /\ frame.y = 0
              /\ frame.z = FloatRound(frame.drop_altitude_km)
              /\ frame.trajectory = <<>>
        /\ frame.x = frame.u_drawn
        /\ frame.y = frame.v_drawn
        /\ frame.steps[frame.run] > 0 =>
              frame.z = FloatSub(frame.current_alt_km,
                                 FloatMul(frame.descent_rate, dt))
        /\ frame.pc \in {"for", "return", "returned"} =>
              frame.landing_points[frame.run] =
                  LandingAt(frame.u_drawn, frame.v_drawn)

\* The second run of a call has landed on winds of its own, away from where
\* the first run landed.
C18_SecondRunLandedAlone ==
    /\ frame.pc = "for"
    /\ frame.run = 2
    /\ frame.steps[2] >= 2
    /\ frame.u_drawn # 0
    /\ frame.landing_points[1].x_drift_m > frame.landing_points[2].x_drift_m

\* C19: at every timestep the standard deviation handed to the draw is
\* max(u_std, 0.5) for u and max(v_std, 0.3) for v, so it is never below
\* 0.5 and 0.3 whatever uncertainty the wind model reports, and the draw is
\* centred on u_mean and v_mean.
C19_SpreadFloors ==
    TotalSteps(frame) > 0 =>
        /\ frame.u_scale >= UStdFloor
        /\ frame.u_scale >= frame.u_std
        /\ frame.u_scale \in {frame.u_std, UStdFloor}
        /\ frame.v_scale >= VStdFloor
        /\ frame.v_scale >= frame.v_std
        /\ frame.v_scale \in {frame.v_std, VStdFloor}
        /\ frame.u_sample - frame.u_mean \in Noise
        /\ frame.v_sample - frame.v_mean \in Noise

\* A wind model that reports no uncertainty at all, and draws that still
\* came off its means, under the floors of 0.5 and 0.3.
C19_FloorsSpreadCalmWind ==
    /\ TotalSteps(frame) > 0
    /\ frame.u_std = 0
    /\ frame.v_std = 0
    /\ frame.u_scale = UStdFloor
    /\ frame.v_scale = VStdFloor
    /\ frame.u_sample # frame.u_mean
    /\ frame.v_sample # frame.v_mean

\* C20 as claimed: rounding to two decimals happens only when the result is
\* assembled and never inside the integration loop, so what a timestep
\* records of the position is the position itself.
C20_NoRoundingInsideLoop ==
    (frame.pc = "while" /\ frame.trajectory # <<>>) =>
        LET point == frame.trajectory[Len(frame.trajectory)]
        IN  /\ point.x_drift_m * DriftGrid = frame.x * 10 ^ Places
            /\ point.y_drift_m * DriftGrid = frame.y * 10 ^ Places

\* A timestep has been taken.
Stepped == TotalSteps(frame') = TotalSteps(frame) + 1

\* C20 as amended: round(., 2) is applied inside the integration loop too,
\* but only to the copies stored in the trajectory point and the landing
\* point: the x, y, z a timestep starts from are the unrounded x, y, z the
\* timestep before left, and no rounded value enters a position update.
C20_StateNeverRounded ==
    [][/\ Stepped =>
            /\ frame'.x = FloatAdd(frame.x, FloatMul(frame'.u_sample, dt))
            /\ frame'.y = FloatAdd(frame.y, FloatMul(frame'.v_sample, dt))
            /\ frame'.z = FloatSub(frame.z, FloatMul(frame.descent_rate, dt))
       /\ (frame.pc = "while" /\ ~Stepped) =>
            /\ frame'.x = frame.x
            /\ frame'.y = frame.y
            /\ frame'.z = frame.z]_vars

\* A run is two timesteps on from a position that round(., 2) had cut short
\* in the record.
C20_CarriedPastRounding ==
    /\ frame.pc = "while"
    /\ Len(frame.trajectory) >= 3
    /\ frame.x = 3
    /\ frame.trajectory[1].x_drift_m * DriftGrid # 1 * 10 ^ Places
    /\ frame.trajectory[1].x_drift_m = Round2(1)
    /\ frame.trajectory[3].x_drift_m = Round2(3)

\* The last altitude handed to wind_model.predict lies in (0, drop altitude].
QueriedWithinDescent(a) ==
    TotalSteps(a) > 0 =>
        /\ a.current_alt_km > 0
        /\ a.current_alt_km <= a.drop_altitude_km

\* C21: every altitude the simulator passes to wind_model.predict is above
\* 0 and at most drop_altitude_km: predict is asked once per timestep at
\* z / 1000 with z > 0, from the drop altitude downwards, also below the
\* 20 km under which the wind-profile endpoint refuses, and never at an
\* altitude <= 0.
C21_PredictWithinDescent ==
    /\ QueriedWithinDescent(frame)
    /\ frame.run >= 1 => Len(frame.trajectory) = frame.steps[frame.run]

\* A call with a negative descent_rate has asked predict at an altitude
\* above its drop altitude, one the wind-profile endpoint would refuse.
C21_QueriedAboveDrop ==
    /\ frame.run >= 1
    /\ frame.descent_rate < 0
    /\ ~IsNaN(frame.descent_rate)
    /\ frame.steps[frame.run] >= 2
    /\ frame.current_alt_km > frame.drop_altitude_km
    /\ ProfileRefused(frame.current_alt_km)

====
